---- MODULE Spec2Model ----
(***************************************************************************)
(* Model of studybot.py: the in-memory session registry (active_sessions,  *)
(* session_tasks), the per-session scheduler coroutine run_session, the    *)
(* command handlers and the SQLite leaderboard.                            *)
(*                                                                         *)
(* asyncio runs one coroutine at a time and switches only at an await, so  *)
(* every action below is the code between two awaits.  Time is in seconds. *)
(***************************************************************************)
EXTENDS Integers, Sequences, FiniteSets, TLC

(* ---------------------------- bounds ----------------------------------- *)
MaxSessions == 2
MaxTime == 120
MaxTimerSessions == 1
MaxTimerTime == 390
MaxBoardRows == 11
MaxFairSessions == 1
MaxGroupTime == 60

(* ------------------------- program constants --------------------------- *)
PollInterval == 15
Warn1Lo == 60
Warn1Hi == 75
Warn5Lo == 5 * 60
Warn5Hi == 5 * 60 + 30
LeaderboardLimit == 10

(* ------------------------- input domains ------------------------------- *)
Chats == {1}

Users ==
  { [id |-> 42, first_name |-> "Ann", full_name |-> "Ann Lee"],
    [id |-> 7,  first_name |-> "",    full_name |-> "Bob"] }

UserIds == {u.id : u \in Users}

\* context.args of /study: each argument is the text the user typed
StudyArgs ==
  { << >>,
    << <<"a", "b">> >>,
    << <<"0">> >>,
    << <<"-", "1">> >>,
    << <<"1">> >>,
    << <<"2">>, <<"2">> >>,
    << <<"1">>, <<"x">> >> }

TimerChats == {1}
TimerStudyArgs == { << <<"6">>, <<"0">> >>, << <<"0">> >> }

MemberStatuses == {"administrator", "creator", "member", "error"}

ClockSteps == {60}

\* two groups, with one user who is in both
GroupChats == {1, 2}
GroupUsers == {u \in Users : u.id = 42}
GroupStudyArgs == { << >>, << <<"1">> >> }
GroupStatuses == {"administrator", "member"}

\* the groups and the display names of the stored tables that
\* /leaderboard is asked about
BoardChats == {1, 2}
BoardNames == <<"Ann", "Bob">>
TimerClockSteps == {15, 225}

(* ------------------------------ state ---------------------------------- *)
VARIABLES
  now,              \* datetime.utcnow(), seconds
  active_sessions,  \* chat_id -> session dict (its identity)
  session_tasks,    \* chat_id -> task (its identity)
  sessions,         \* identity -> the session dicts still referenced
  tasks,            \* identity -> the run_session tasks created so far
  leaderboard,      \* table leaderboard: <<chat_id, user_id>> -> row
  reply,            \* what the handler run in this step replied
  sent,             \* the send_message call made in this step
  credited,         \* the add_study_minutes commit made in this step
  cancelLog,        \* task -> phase and members when /end cancelled it
  emitted,          \* live task -> how often it sent each kind of message
  landed,           \* live task -> polls that fell into each warning window,
                    \*   and the members the completing poll found
  earned            \* <<chat_id, user_id>> -> minutes of completed sessions

vars == <<now, active_sessions, session_tasks, sessions, tasks, leaderboard,
          reply, sent, credited, cancelLog, emitted, landed, earned>>

NoReply == [op |-> "none", chat_id |-> 0, result |-> "none", info |-> << >>]
NoMessage == [kind |-> "none", task |-> 0, chat_id |-> 0, minutes |-> 0,
              participants |-> << >>]
NoCredit == [task |-> 0, chat_id |-> 0, user_id |-> 0, minutes |-> 0]

(* ------------------------- pure helpers -------------------------------- *)
Digits == {"0", "1", "2", "3", "4", "5", "6", "7", "8", "9"}

DigitVal(c) ==
  CASE c = "0" -> 0 [] c = "1" -> 1 [] c = "2" -> 2 [] c = "3" -> 3
    [] c = "4" -> 4 [] c = "5" -> 5 [] c = "6" -> 6 [] c = "7" -> 7
    [] c = "8" -> 8 [] c = "9" -> 9

RECURSIVE DigitsVal(_)
DigitsVal(s) ==
  IF s = << >> THEN 0
  ELSE 10 * DigitsVal(SubSeq(s, 1, Len(s) - 1)) + DigitVal(s[Len(s)])

AllDigits(s) == Len(s) > 0 /\ \A i \in 1..Len(s) : s[i] \in Digits

\* int(token) succeeds (otherwise it raises ValueError)
IntOk(tok) ==
  IF Len(tok) > 0 /\ tok[1] \in {"-", "+"} THEN AllDigits(Tail(tok))
  ELSE AllDigits(tok)

\* int(token)
IntVal(tok) ==
  IF tok[1] = "-" THEN 0 - DigitsVal(Tail(tok))
  ELSE IF tok[1] = "+" THEN DigitsVal(Tail(tok))
  ELSE DigitsVal(tok)

\* user.first_name or user.full_name
DisplayName(u) == IF u.first_name # "" THEN u.first_name ELSE u.full_name

\* (variant: dict.clear())
Pop_Clear(d, k) == << >>

\* dict.pop(key, None)
Pop(d, k) == [x \in (DOMAIN d) \ {k} |-> d[x]]

\* dict[key] = value
Put(d, k, v) == [x \in (DOMAIN d) \cup {k} |-> IF x = k THEN v ELSE d[x]]

\* end_time - now, in seconds
Remaining(session, t) == (session.start_time + 60 * session.minutes) - t

Max(a, b) == IF a >= b THEN a ELSE b

MemberNames(members) == [i \in 1..Len(members) |-> members[i].name]

IsMember(members, user_id) == \E i \in 1..Len(members) : members[i].id = user_id

SendPcs == {"warn1_send", "warn5_send", "done_send"}
TerminalPcs == {"done", "cancelled", "failed"}
TaskIds == 1..Len(tasks)

\* A session dict lives as long as the registry or a running task refers to it.
Referenced(s, registry, tks) ==
  \/ \E c \in DOMAIN registry : registry[c] = s
  \/ \E t \in 1..Len(tks) : tks[t].pc \notin TerminalPcs /\ tks[t].session = s

Sweep(heap, registry, tks) ==
  [s \in {x \in DOMAIN heap : Referenced(x, registry, tks)} |-> heap[s]]

\* The bookkeeping of a task ends with the task.
Live(log, tks) ==
  [t \in {x \in DOMAIN log : tks[x].pc \notin TerminalPcs} |-> log[t]]

(* ------------------------------ Init ----------------------------------- *)
Init ==
  /\ now = 0
  /\ active_sessions = << >>
  /\ session_tasks = << >>
  /\ sessions = << >>
  /\ tasks = << >>
  /\ leaderboard = << >>
  /\ reply = NoReply
  /\ sent = NoMessage
  /\ credited = NoCredit
  /\ cancelLog = << >>
  /\ emitted = << >>
  /\ landed = << >>
  /\ earned = << >>

Reply(op, chat_id, result, info) ==
  [op |-> op, chat_id |-> chat_id, result |-> result, info |-> info]

(* --------------------------- study_command ----------------------------- *)
\* (variant: the check for a running session is missing)
StudyOutcome_NoConflict(chat_id, args) ==
  IF Len(args) = 0 THEN "Usage"
  ELSE IF ~IntOk(args[1]) THEN "InvalidInput"
  ELSE IF Len(args) > 1 /\ ~IntOk(args[2]) THEN "InvalidInput"
  ELSE IF IntVal(args[1]) <= 0 THEN "InvalidInput"
  ELSE "Started"

\* The branch study_command takes, decided before any state is touched.
StudyOutcome(chat_id, args) ==
  IF Len(args) = 0 THEN "Usage"
  ELSE IF ~IntOk(args[1]) THEN "InvalidInput"
  ELSE IF Len(args) > 1 /\ ~IntOk(args[2]) THEN "InvalidInput"
  ELSE IF IntVal(args[1]) <= 0 THEN "InvalidInput"
  ELSE IF chat_id \in DOMAIN active_sessions THEN "Conflict"
  ELSE "Started"

NewSession(args) ==
  LET minutes == IntVal(args[1])
      cycles  == IF Len(args) > 1 THEN IntVal(args[2]) ELSE 1
  IN [minutes    |-> minutes,
      start_time |-> now,
      members    |-> << >>,
      mode       |-> IF cycles > 1 THEN "Pomodoro" ELSE "Single",
      cycles     |-> cycles,
      warned_5m  |-> FALSE,
      warned_1m  |-> FALSE]

\* asyncio.create_task(run_session(chat_id, context)): not yet started
NewTask(chat_id) ==
  [chat_id |-> chat_id, pc |-> "new", session |-> 0,
   wake |-> 0, remaining |-> 0, idx |-> 0, row |-> << >>]

\* (variant: the session is installed before the running one is looked for)
Installs_Conflict(outcome) == outcome \in {"Started", "Conflict"}

\* lines 98-104 run only when nothing was rejected
Installs(outcome) == outcome = "Started"

NoneEmitted == [warn1 |-> 0, warn5 |-> 0, finished |-> 0]
NoneLanded == [warn1 |-> 0, warn5 |-> 0, members |-> 0]

study_command(chat_id, args) ==
  LET outcome == StudyOutcome(chat_id, args)
      id == Len(tasks) + 1
  IN
  /\ reply' = Reply("study", chat_id, outcome, << >>)
  /\ IF Installs(outcome)
     THEN /\ Len(tasks) < MaxSessions
          /\ sessions' = Put(sessions, id, NewSession(args))
          /\ tasks' = Append(tasks, NewTask(chat_id))
          /\ active_sessions' = Put(active_sessions, chat_id, id)
          /\ session_tasks' = Put(session_tasks, chat_id, id)
          /\ emitted' = Put(emitted, id, NoneEmitted)
          /\ landed' = Put(landed, id, NoneLanded)
     ELSE UNCHANGED <<sessions, tasks, active_sessions, session_tasks,
                      emitted, landed>>
  /\ sent' = NoMessage
  /\ credited' = NoCredit
  /\ UNCHANGED <<now, leaderboard, cancelLog, earned>>

(* ---------------------------- join_command ----------------------------- *)
\* (variant: the membership test is missing)
JoinOutcome_NoCheck(chat_id, user) ==
  IF chat_id \notin DOMAIN active_sessions THEN "NotFound" ELSE "Joined"

JoinOutcome(chat_id, user) ==
  IF chat_id \notin DOMAIN active_sessions THEN "NotFound"
  ELSE IF IsMember(sessions[active_sessions[chat_id]].members, user.id)
       THEN "AlreadyJoined"
  ELSE "Joined"

join_command(chat_id, user) ==
  LET outcome == JoinOutcome(chat_id, user) IN
  /\ IF outcome = "Joined"
     THEN LET s == active_sessions[chat_id] IN
          /\ sessions' = [sessions EXCEPT ![s].members =
                            Append(@, [id |-> user.id, name |-> DisplayName(user)])]
          /\ reply' = Reply("join", chat_id, outcome,
                            <<user.id, DisplayName(user),
                              Len(sessions'[s].members)>>)
     ELSE /\ UNCHANGED sessions
          /\ reply' = Reply("join", chat_id, outcome, <<user.id>>)
  /\ sent' = NoMessage
  /\ credited' = NoCredit
  /\ UNCHANGED <<now, active_sessions, session_tasks, tasks, leaderboard,
                 cancelLog, emitted, landed, earned>>

(* --------------------------- status_command ---------------------------- *)
\* lines 125-132: what the status text is built from
StatusText(session) ==
  LET remaining == Max(0, Remaining(session, now)) IN
  [minutes |-> session.minutes, mins |-> remaining \div 60,
   secs |-> remaining % 60,
   members |-> IF Len(session.members) = 0 THEN <<"No participants yet">>
               ELSE MemberNames(session.members)]

status_command(chat_id) ==
  /\ reply' = IF chat_id \notin DOMAIN active_sessions
               THEN Reply("status", chat_id, "NotFound", << >>)
               ELSE Reply("status", chat_id, "Status",
                          <<StatusText(sessions[active_sessions[chat_id]])>>)
  /\ sent' = NoMessage
  /\ credited' = NoCredit
  /\ UNCHANGED <<now, active_sessions, session_tasks, sessions, tasks,
                 leaderboard, cancelLog, emitted, landed, earned>>

(* ----------------------------- run_session ---------------------------- *)
\* Where a task is suspended (pc):
\*   new         created, first step not yet run
\*   sleep       await asyncio.sleep(15)
\*   warn1_send  await send_message("1 minute left")
\*   warn5_send  await send_message("5 minutes left")
\*   read        await add_study_minutes: SELECT not yet answered
\*   write       await add_study_minutes: UPDATE/INSERT + commit not yet done
\*   done_send   await send_message("finished")
\*   done        returned after completion (or found no session)
\*   cancelled   returned from except CancelledError (or never started)
\*   failed      ended by an exception other than CancelledError

\* The task t suspended at pc, with its locals; unused locals are cleared.
Suspend(t, s, pc, wake, remaining, idx, row) ==
  [tasks EXCEPT ![t] = [chat_id |-> tasks[t].chat_id, pc |-> pc, session |-> s,
                        wake |-> wake, remaining |-> remaining,
                        idx |-> idx, row |-> row]]

\* The task t has ended: it no longer refers to its session.
Finish(t, pc) == Suspend(t, 0, pc, 0, 0, 0, << >>)

\* (variant: the list of names as it is, without the marker)
Participants_Blank(members) == MemberNames(members)

\* ', '.join([m['name'] for m in members]) or 'No one'
Participants(members) ==
  IF Len(members) = 0 THEN <<"No one">> ELSE MemberNames(members)

\* context.bot.send_message(chat_id=chat_id, text=...) is called by task t
Emit(t, kind, minutes, participants) ==
  /\ sent' = [kind |-> kind, task |-> t, chat_id |-> tasks[t].chat_id,
              minutes |-> minutes, participants |-> participants]
  /\ emitted' = [emitted EXCEPT ![t][kind] = @ + 1]

NoEmit ==
  /\ sent' = NoMessage
  /\ emitted' = emitted

\* (variant: the window of the 1-minute warning lies above the 5-minute one)
Warn1Due_Early(session, remaining) ==
  Warn5Hi <= remaining /\ remaining < Warn5Hi + PollInterval
    /\ ~session.warned_1m

Warn1Due(session, remaining) ==
  Warn1Lo <= remaining /\ remaining < Warn1Hi /\ ~session.warned_1m

\* (variant: the warned_5m flag is not consulted)
Warn5Due_NoFlag(session, remaining) ==
  Warn5Lo <= remaining /\ remaining < Warn5Hi

Warn5Due(session, remaining) ==
  Warn5Lo <= remaining /\ remaining < Warn5Hi /\ ~session.warned_5m

\* line 77: await asyncio.sleep(15)
Sleep(t, s) ==
  /\ tasks' = Suspend(t, s, "sleep", now + PollInterval, 0, 0, << >>)
  /\ NoEmit

\* lines 74-77, with the session dict as it is when they run
CheckWarn5(t, s, session, remaining) ==
  IF Warn5Due(session, remaining)
  THEN /\ Emit(t, "warn5", session.minutes, << >>)
       /\ tasks' = Suspend(t, s, "warn5_send", 0, remaining, 0, << >>)
  ELSE Sleep(t, s)

\* lines 71-77
CheckWarn1(t, s, remaining) ==
  IF Warn1Due(sessions[s], remaining)
  THEN /\ Emit(t, "warn1", sessions[s].minutes, << >>)
       /\ tasks' = Suspend(t, s, "warn1_send", 0, remaining, 0, << >>)
  ELSE CheckWarn5(t, s, sessions[s], remaining)

\* line 66: the completion message is built from the list as it is now
SendFinished(t, s, members) ==
  /\ Emit(t, "finished", sessions[s].minutes, Participants(members))
  /\ tasks' = Suspend(t, s, "done_send", 0, 0, 0, << >>)

\* lines 62-66: remaining <= 0 was observed
BeginCompletion(t, s) ==
  LET members == sessions[s].members IN
  IF Len(members) > 0
  THEN /\ tasks' = Suspend(t, s, "read", 0, 0, 1, << >>)
       /\ NoEmit
  ELSE SendFinished(t, s, members)

\* one more poll of t, counted in the warning window it falls into; the poll
\* that observes remaining <= 0 finds so many members in the session
Landed(t, remaining, members) ==
  [landed EXCEPT
     ![t].warn1 = IF Warn1Lo <= remaining /\ remaining < Warn1Hi
                  THEN @ + 1 ELSE @,
     ![t].warn5 = IF Warn5Lo <= remaining /\ remaining < Warn5Hi
                  THEN @ + 1 ELSE @,
     ![t].members = IF remaining <= 0 THEN Len(members) ELSE @]

\* lines 59-77: one pass of the while loop up to its first await
LoopBody(t, s) ==
  LET remaining == Remaining(sessions[s], now) IN
  /\ IF remaining <= 0 THEN BeginCompletion(t, s)
     ELSE CheckWarn1(t, s, remaining)
  /\ landed' = Landed(t, remaining, sessions[s].members)

\* lines 51-56 and the first pass of the loop
RunSessionStart(t) ==
  /\ tasks[t].pc = "new"
  /\ IF tasks[t].chat_id \in DOMAIN active_sessions
     THEN LoopBody(t, active_sessions[tasks[t].chat_id])
     ELSE /\ tasks' = Finish(t, "done")
          /\ sent' = NoMessage
          /\ emitted' = Live(emitted, tasks')
          /\ landed' = Live(landed, tasks')
  /\ reply' = NoReply
  /\ credited' = NoCredit
  /\ UNCHANGED <<now, active_sessions, session_tasks, sessions, leaderboard,
                 cancelLog, earned>>

\* asyncio.sleep(15) has returned: the next pass of the loop
Poll(t) ==
  /\ tasks[t].pc = "sleep"
  /\ now >= tasks[t].wake
  /\ LoopBody(t, tasks[t].session)
  /\ reply' = NoReply
  /\ credited' = NoCredit
  /\ UNCHANGED <<now, active_sessions, session_tasks, sessions, leaderboard,
                 cancelLog, earned>>

(* --------------------------- add_study_minutes ------------------------- *)
\* lines 37-38: SELECT total_minutes ... fetchone(); << >> is None
SelectRow(lb, chat_id, user_id) ==
  IF <<chat_id, user_id>> \in DOMAIN lb
  THEN <<lb[<<chat_id, user_id>>].total_minutes>>
  ELSE << >>

\* (variant: the UPDATE stores the minutes of this session only)
Upsert_Overwrite(lb, chat_id, user_id, username, minutes, row) ==
  Put(lb, <<chat_id, user_id>>,
      [username |-> username, total_minutes |-> minutes])

\* lines 39-44: UPDATE with the total computed from the row read, or INSERT
Upsert(lb, chat_id, user_id, username, minutes, row) ==
  Put(lb, <<chat_id, user_id>>,
      [username |-> username,
       total_minutes |-> IF Len(row) > 0 THEN row[1] + minutes ELSE minutes])

\* INSERT of a key that exists by now violates the PRIMARY KEY
InsertClash(lb, chat_id, user_id, row) ==
  Len(row) = 0 /\ <<chat_id, user_id>> \in DOMAIN lb

\* the credit of task t for members[idx] is committed
Commit(t) ==
  LET s == tasks[t].session
      u == sessions[s].members[tasks[t].idx]
  IN /\ leaderboard' = Upsert(leaderboard, tasks[t].chat_id, u.id, u.name,
                              sessions[s].minutes, tasks[t].row)
     /\ credited' = [task |-> t, chat_id |-> tasks[t].chat_id,
                     user_id |-> u.id, minutes |-> sessions[s].minutes]

\* line 65, first half: the SELECT of the credit for members[idx] is answered
CreditRead(t) ==
  /\ tasks[t].pc = "read"
  /\ LET s == tasks[t].session
         u == sessions[s].members[tasks[t].idx]
     IN tasks' = Suspend(t, s, "write", 0, 0, tasks[t].idx,
                         SelectRow(leaderboard, tasks[t].chat_id, u.id))
  /\ reply' = NoReply
  /\ sent' = NoMessage
  /\ credited' = NoCredit
  /\ UNCHANGED <<now, active_sessions, session_tasks, sessions, leaderboard,
                 cancelLog, emitted, landed, earned>>

\* lines 64-66: the for loop moves on; the list is looked at again on every
\* pass, so members appended meanwhile are visited too
NextMember(t, s) ==
  IF tasks[t].idx + 1 <= Len(sessions[s].members)
  THEN /\ tasks' = Suspend(t, s, "read", 0, 0, tasks[t].idx + 1, << >>)
       /\ NoEmit
  ELSE SendFinished(t, s, sessions[s].members)

\* line 65, second half: the write of the credit is committed
CreditWrite(t) ==
  /\ tasks[t].pc = "write"
  /\ LET s == tasks[t].session
         u == sessions[s].members[tasks[t].idx]
     IN IF InsertClash(leaderboard, tasks[t].chat_id, u.id, tasks[t].row)
        THEN /\ tasks' = Finish(t, "failed")
             /\ sent' = NoMessage
             /\ credited' = NoCredit
             /\ emitted' = Live(emitted, tasks')
             /\ landed' = Live(landed, tasks')
             /\ UNCHANGED leaderboard
        ELSE /\ Commit(t)
             /\ NextMember(t, s)
             /\ UNCHANGED landed
  /\ reply' = NoReply
  /\ UNCHANGED <<now, active_sessions, session_tasks, sessions, cancelLog,
                 earned>>

(* ------------------------ send_message outcomes ------------------------ *)
\* minutes of completed sessions, by key: one more session has completed
Earn(e, chat_id, members, minutes) ==
  LET keys == {<<chat_id, members[i].id>> : i \in 1..Len(members)} IN
  [k \in (DOMAIN e) \cup keys |->
     (IF k \in DOMAIN e THEN e[k] ELSE 0) + (IF k \in keys THEN minutes ELSE 0)]

\* the awaited send_message returns
SendOk(t) ==
  /\ tasks[t].pc \in SendPcs
  /\ LET s == tasks[t].session IN
     CASE tasks[t].pc = "warn1_send" ->
            /\ sessions' = [sessions EXCEPT ![s].warned_1m = TRUE]
            /\ CheckWarn5(t, s, sessions'[s], tasks[t].remaining)
            /\ UNCHANGED <<active_sessions, session_tasks, landed, earned>>
       [] tasks[t].pc = "warn5_send" ->
            /\ sessions' = [sessions EXCEPT ![s].warned_5m = TRUE]
            /\ Sleep(t, s)
            /\ UNCHANGED <<active_sessions, session_tasks, landed, earned>>
       [] tasks[t].pc = "done_send" ->
            /\ active_sessions' = Pop(active_sessions, tasks[t].chat_id)
            /\ session_tasks' = Pop(session_tasks, tasks[t].chat_id)
            /\ tasks' = Finish(t, "done")
            /\ sessions' = Sweep(sessions, active_sessions', tasks')
            /\ earned' = Earn(earned, tasks[t].chat_id, sessions[s].members,
                              sessions[s].minutes)
            /\ sent' = NoMessage
            /\ emitted' = Live(emitted, tasks')
            /\ landed' = Live(landed, tasks')
  /\ reply' = NoReply
  /\ credited' = NoCredit
  /\ UNCHANGED <<now, leaderboard, cancelLog>>

\* the awaited send_message raises: only CancelledError is caught (line 78)
SendFail(t) ==
  /\ tasks[t].pc \in SendPcs
  /\ tasks' = Finish(t, "failed")
  /\ sessions' = Sweep(sessions, active_sessions, tasks')
  /\ emitted' = Live(emitted, tasks')
  /\ landed' = Live(landed, tasks')
  /\ reply' = NoReply
  /\ sent' = NoMessage
  /\ credited' = NoCredit
  /\ UNCHANGED <<now, active_sessions, session_tasks, leaderboard, cancelLog,
                 earned>>

(* ------------------------------- clock --------------------------------- *)
\* A task that the event loop can resume without waiting for anything
Ready(t) ==
  \/ tasks[t].pc = "new"
  \/ tasks[t].pc = "sleep" /\ now >= tasks[t].wake

\* The clock is read by run_session and status_command only.  It moves on
\* while some scheduler is alive, and a scheduler that is ready to run is
\* resumed before it moves again.
AdvanceClock(d, limit) ==
  /\ now + d <= limit
  /\ \E t \in TaskIds : tasks[t].pc \notin TerminalPcs
  /\ \A t \in TaskIds : ~Ready(t)
  /\ now' = now + d
  /\ reply' = NoReply
  /\ sent' = NoMessage
  /\ credited' = NoCredit
  /\ UNCHANGED <<active_sessions, session_tasks, sessions, tasks, leaderboard,
                 cancelLog, emitted, landed, earned>>

(* ------------------------- leaderboard_command ------------------------- *)
\* WHERE chat_id = ?
GroupKeys(lb, chat_id) == {k \in DOMAIN lb : k[1] = chat_id}

\* (variant: no ORDER BY)
Highest_Any(lb, keys) == keys

\* ORDER BY total_minutes DESC: the rows that may come next.  SQL leaves the
\* order of rows with equal total_minutes open.
Highest(lb, keys) ==
  {k \in keys : \A j \in keys : lb[k].total_minutes >= lb[j].total_minutes}

\* ... ORDER BY total_minutes DESC LIMIT limit: every order the query may
\* answer with, as sequences of keys
RECURSIVE TopRows(_, _, _)
TopRows(lb, keys, limit) ==
  IF keys = {} \/ limit = 0 THEN { << >> }
  ELSE UNION { { <<k>> \o rest : rest \in TopRows(lb, keys \ {k}, limit - 1) } :
               k \in Highest(lb, keys) }

\* line 169-170: SELECT username, total_minutes ...; fetchall()
SelectTop(lb, chat_id) ==
  { [i \in 1..Len(ks) |-> <<lb[ks[i]].username, lb[ks[i]].total_minutes>>] :
      ks \in TopRows(lb, GroupKeys(lb, chat_id), LeaderboardLimit) }

\* The reply lists the rows in the order fetched, numbered from 1.
leaderboard_command(chat_id) ==
  /\ \E rows \in SelectTop(leaderboard, chat_id) :
       reply' = Reply("leaderboard", chat_id,
                      IF Len(rows) = 0 THEN "NoRecords" ELSE "Board", rows)
  /\ sent' = NoMessage
  /\ credited' = NoCredit
  /\ UNCHANGED <<now, active_sessions, session_tasks, sessions, tasks,
                 leaderboard, cancelLog, emitted, landed, earned>>

(* ----------------------------- end_command ---------------------------- *)
\* (variant: the registry is not consulted)
EndOutcome_NoLookup(chat_id, status) ==
  IF status = "error" THEN "Forbidden"
  ELSE IF status \notin {"administrator", "creator"} THEN "Forbidden"
  ELSE "Cancelled"

\* The branch end_command takes; status is what get_chat_member answered
\* ("error": it raised).
EndOutcome(chat_id, status) ==
  IF status = "error" THEN "Forbidden"
  ELSE IF status \notin {"administrator", "creator"} THEN "Forbidden"
  ELSE IF chat_id \notin DOMAIN active_sessions THEN "NotFound"
  ELSE "Cancelled"

\* (variant: the task is not cancelled)
CancelTask_NoOp(t) == tasks

\* (variant: a task that is completing is shielded from the cancel)
CancelTask_Shielded(t) ==
  IF tasks[t].pc \in TerminalPcs \cup {"read", "write", "done_send"} THEN tasks
  ELSE Finish(t, "cancelled")

\* task.cancel(): CancelledError is raised at the await the task is suspended
\* at, and run_session returns from its except clause.  A finished task is
\* left as it is.
CancelTask(t) ==
  IF tasks[t].pc \in TerminalPcs THEN tasks ELSE Finish(t, "cancelled")

\* (variant: the entry is left in place)
EndPop_Keep(registry, chat_id) == registry

\* lines 149-150: active_sessions.pop(chat_id, None), and session_tasks
EndPop(registry, chat_id) == Pop(registry, chat_id)

\* the phase of run_session a cancel finds the task in
Phase(pc) ==
  IF pc \in TerminalPcs THEN "ended"
  ELSE IF pc \in {"read", "write", "done_send"} THEN "completing"
  ELSE "running"

end_command(chat_id, status, commit) ==
  LET outcome == EndOutcome(chat_id, status) IN
  /\ reply' = Reply("end", chat_id, outcome,
                    IF status = "error" THEN <<"check failed">> ELSE << >>)
  /\ IF outcome = "Cancelled"
     THEN /\ IF chat_id \in DOMAIN session_tasks
             THEN LET t == session_tasks[chat_id] IN
                  /\ tasks' = CancelTask(t)
                  /\ cancelLog' = Put(cancelLog, t,
                        [phase |-> Phase(tasks[t].pc),
                         joined |-> Len(sessions[active_sessions[chat_id]].members)])
                  \* A cancel that arrives while the credit's statements are
                  \* with the database thread: a commit already handed over
                  \* still lands, an UPDATE or INSERT not yet committed is
                  \* rolled back when the connection closes.
                  /\ IF /\ tasks[t].pc = "write"
                        /\ commit
                        /\ ~InsertClash(leaderboard, chat_id,
                              sessions[tasks[t].session].members[tasks[t].idx].id,
                              tasks[t].row)
                     THEN Commit(t)
                     ELSE /\ commit = FALSE
                          /\ credited' = NoCredit
                          /\ UNCHANGED leaderboard
             ELSE /\ commit = FALSE
                  /\ credited' = NoCredit
                  /\ UNCHANGED <<tasks, cancelLog, leaderboard>>
          /\ active_sessions' = EndPop(active_sessions, chat_id)
          /\ session_tasks' = EndPop(session_tasks, chat_id)
          /\ sessions' = Sweep(sessions, active_sessions', tasks')
          /\ emitted' = Live(emitted, tasks')
          /\ landed' = Live(landed, tasks')
     ELSE /\ commit = FALSE
          /\ credited' = NoCredit
          /\ UNCHANGED <<tasks, cancelLog, leaderboard, active_sessions,
                         session_tasks, sessions, emitted, landed>>
  /\ sent' = NoMessage
  /\ UNCHANGED <<now, earned>>

(* ------------------------------ behaviour ------------------------------ *)
Scheduler ==
  \/ \E t \in TaskIds : RunSessionStart(t)
  \/ \E t \in TaskIds : Poll(t)
  \/ \E t \in TaskIds : CreditRead(t)
  \/ \E t \in TaskIds : CreditWrite(t)
  \/ \E t \in TaskIds : SendOk(t)
  \/ \E t \in TaskIds : SendFail(t)

Next ==
  \/ \E c \in Chats, a \in StudyArgs : study_command(c, a)
  \/ \E c \in Chats, u \in Users : join_command(c, u)
  \/ \E c \in Chats : status_command(c)
  \/ \E c \in Chats, st \in MemberStatuses, l \in BOOLEAN : end_command(c, st, l)
  \/ \E c \in Chats : leaderboard_command(c)
  \/ Scheduler
  \/ \E d \in ClockSteps : AdvanceClock(d, MaxTime)

Spec == Init /\ [][Next]_vars

\* One group, long sessions, a fine clock: the threshold windows.
NextTimer ==
  \/ \E c \in TimerChats, a \in TimerStudyArgs :
        /\ StudyOutcome(c, a) = "Started" => Len(tasks) < MaxTimerSessions
        /\ study_command(c, a)
  \/ \E c \in TimerChats, u \in Users : join_command(c, u)
  \/ \E c \in TimerChats : status_command(c)
  \/ \E c \in TimerChats, st \in MemberStatuses, l \in BOOLEAN :
        end_command(c, st, l)
  \/ \E c \in TimerChats : leaderboard_command(c)
  \/ Scheduler
  \/ \E d \in TimerClockSteps : AdvanceClock(d, MaxTimerTime)

SpecTimer == Init /\ [][NextTimer]_vars

\* One group under a fair event loop: a scheduler that can run does run, and
\* time passes.  The handlers run when updates arrive, which nothing
\* promises.  A session is started only if it ends by MaxTime; the clock
\* moves on while the scheduler sleeps, as far as its last wake-up needs.
FairClock(d) ==
  /\ \A t \in TaskIds : tasks[t].pc \notin TerminalPcs => tasks[t].pc = "sleep"
  /\ AdvanceClock(d, MaxTime + PollInterval + d)

NextFair ==
  \/ \E c \in Chats, a \in StudyArgs :
        /\ StudyOutcome(c, a) = "Started"
             => /\ Len(tasks) < MaxFairSessions
                /\ now + 60 * IntVal(a[1]) <= MaxTime
        /\ study_command(c, a)
  \/ \E c \in Chats, u \in Users : join_command(c, u)
  \/ \E c \in Chats : status_command(c)
  \/ \E c \in Chats, st \in MemberStatuses, l \in BOOLEAN : end_command(c, st, l)
  \/ \E c \in Chats : leaderboard_command(c)
  \/ Scheduler
  \/ \E d \in ClockSteps : FairClock(d)

Fairness ==
  /\ WF_vars(Scheduler)
  /\ WF_vars(\E d \in ClockSteps : FairClock(d))

SpecFair == Init /\ [][NextFair]_vars /\ Fairness

\* Two groups side by side, one-minute sessions.
NextGroups ==
  \/ \E c \in GroupChats, a \in GroupStudyArgs : study_command(c, a)
  \/ \E c \in GroupChats, u \in GroupUsers : join_command(c, u)
  \/ \E c \in GroupChats : status_command(c)
  \/ \E c \in GroupChats, st \in GroupStatuses, l \in BOOLEAN :
        end_command(c, st, l)
  \/ \E c \in GroupChats : leaderboard_command(c)
  \/ Scheduler
  \/ \E d \in ClockSteps : AdvanceClock(d, MaxGroupTime)

SpecGroups == Init /\ [][NextGroups]_vars

\* /leaderboard on stored tables: group 1 holds rows of the users 1..n, user
\* i with i or i + 1 minutes (so neighbours may tie), group 2 at most one row.
BoardTable(n, extra, other) ==
  [k \in {<<1, i>> : i \in 1..n} \cup {<<2, 99>> : x \in other} |->
     IF k[1] = 1
     THEN [username |-> BoardNames[(k[2] % 2) + 1],
           total_minutes |-> k[2] + extra[k[2]]]
     ELSE [username |-> "Zed", total_minutes |-> CHOOSE x \in other : TRUE]]

InitBoard ==
  /\ \E n \in 0..MaxBoardRows, other \in {{}, {5}, {50}} :
       \E extra \in [1..n -> {0, 1}] :
         leaderboard = BoardTable(n, extra, other)
  /\ now = 0
  /\ active_sessions = << >>
  /\ session_tasks = << >>
  /\ sessions = << >>
  /\ tasks = << >>
  /\ reply = NoReply
  /\ sent = NoMessage
  /\ credited = NoCredit
  /\ cancelLog = << >>
  /\ emitted = << >>
  /\ landed = << >>
  /\ earned = << >>

NextBoard == \E c \in BoardChats : leaderboard_command(c)

SpecBoard == InitBoard /\ [][NextBoard]_vars

(* ------------------------------ properties ----------------------------- *)
\* the sessions of a group that are still referenced
LiveSessions(c) == {s \in DOMAIN sessions : tasks[s].chat_id = c}

\* the schedulers of a group that have not returned
LiveTasks(c) ==
  {t \in TaskIds : tasks[t].chat_id = c /\ tasks[t].pc \notin TerminalPcs}

Core == <<active_sessions, session_tasks, sessions, tasks, leaderboard>>

Rejections ==
  {"Usage", "InvalidInput", "Conflict", "NotFound", "AlreadyJoined", "Forbidden"}

\* C1: a group never has more than one live session (nor more than one
\* running scheduler), and a /study for a group whose session is live is
\* answered Conflict (or rejected as invalid) and leaves the registry alone.
C1_ConflictStep ==
  \A c \in Chats :
    (c \in DOMAIN active_sessions /\ reply'.op = "study" /\ reply'.chat_id = c)
      => /\ reply'.result \in {"Conflict", "Usage", "InvalidInput"}
         /\ active_sessions' = active_sessions
         /\ session_tasks' = session_tasks

C1_OneSessionPerGroup ==
  /\ [](\A c \in Chats : /\ Cardinality(LiveSessions(c)) <= 1
                         /\ Cardinality(LiveTasks(c)) <= 1)
  /\ [][C1_ConflictStep]_vars

C1_Witness ==
  /\ reply.op = "study"
  /\ reply.result = "Conflict"
  /\ Cardinality(LiveSessions(reply.chat_id)) = 1

\* C2: a session that an admin ended while its scheduler was still in the
\* timer loop (remaining <= 0 not yet observed) never gets a leaderboard
\* credit and never gets its completion message.
C2_NoCreditAfterCancel ==
  \A t \in DOMAIN cancelLog :
    cancelLog[t].phase = "running"
      => /\ credited.task # t
         /\ ~(sent.task = t /\ sent.kind = "finished")

C2_Witness ==
  /\ reply.op = "end"
  /\ reply.result = "Cancelled"
  /\ now > 0
  /\ \E t \in DOMAIN cancelLog :
       /\ t = Len(tasks)
       /\ cancelLog[t].phase = "running"
       /\ cancelLog[t].joined > 0
       /\ tasks[t].pc = "cancelled"

\* C3 (as claimed): once the scheduler has observed remaining <= 0, an /end
\* does not stop it: it is not cancelled, so the remaining members are
\* credited and the completion message is sent.
C3_CancelAfterBatchIgnored ==
  \A t \in DOMAIN cancelLog :
    cancelLog[t].phase = "completing" => tasks[t].pc # "cancelled"

\* C4 (as claimed): a send_message that fails never ends the scheduler: no
\* run_session task terminates with an exception.
C4_SendFailureNotFatal ==
  \A t \in TaskIds : tasks[t].pc # "failed"

\* C5: right after /end answered Cancelled for a group, the group has no
\* entry in the registry, and a valid /study for it handled next is Started.
C5_StartStep ==
  (/\ reply.op = "end"
   /\ reply.result = "Cancelled"
   /\ reply'.op = "study"
   /\ reply'.chat_id = reply.chat_id
   /\ reply'.result \notin {"Usage", "InvalidInput"})
    => /\ reply'.result = "Started"
       /\ reply.chat_id \in DOMAIN active_sessions'

C5_StartAfterCancel ==
  /\ []((reply.op = "end" /\ reply.result = "Cancelled")
          => /\ reply.chat_id \notin DOMAIN active_sessions
             /\ reply.chat_id \notin DOMAIN session_tasks)
  /\ [][C5_StartStep]_vars

C5_Witness ==
  /\ reply.op = "study"
  /\ reply.result = "Started"
  /\ Len(tasks) > 1
  /\ (Len(tasks) - 1) \in DOMAIN cancelLog
  /\ tasks[Len(tasks) - 1].chat_id = reply.chat_id
  /\ tasks[Len(tasks) - 1].pc = "cancelled"

\* C6: while a session runs, each warning has been sent exactly once if a
\* poll has fallen into its window, never more than once, and a warning is
\* only ever sent by a scheduler that is still in its timer loop.
C6_WarningsOnce ==
  /\ \A t \in DOMAIN emitted :
       /\ emitted[t].warn1 <= 1
       /\ emitted[t].warn5 <= 1
       /\ landed[t].warn1 > 0 => emitted[t].warn1 = 1
       /\ landed[t].warn5 > 0 => emitted[t].warn5 = 1
  /\ sent.kind \in {"warn1", "warn5"}
       => /\ tasks[sent.task].pc \in {"warn1_send", "warn5_send"}
          /\ sent.task \in DOMAIN emitted
          /\ emitted[sent.task].finished = 0

C6_Witness ==
  \E t \in DOMAIN emitted :
    /\ landed[t].warn5 = 2
    /\ emitted[t].warn5 = 1
    /\ landed[t].warn1 = 1
    /\ emitted[t].warn1 = 1
    /\ tasks[t].pc = "sleep"

\* the group has a scheduler that is inside its completion step
InBatch(c) ==
  \E t \in LiveTasks(c) : tasks[t].pc \in {"read", "write", "done_send"}

TotalMinutes(k) ==
  IF k \in DOMAIN leaderboard THEN leaderboard[k].total_minutes ELSE 0

EarnedMinutes(k) == IF k \in DOMAIN earned THEN earned[k] ELSE 0

\* C7 (as claimed): whenever no completion step is under way in a group, the
\* total_minutes of every participant of the group is the sum of the
\* durations of the group's completed sessions of which they were a member.
C7_TotalIsSumOfCompleted ==
  \A c \in Chats, u \in UserIds :
    ~InBatch(c) => TotalMinutes(<<c, u>>) = EarnedMinutes(<<c, u>>)

\* C8: the members list of a session never holds the same user id twice, and
\* a /join of a user who is already in the list is answered AlreadyJoined and
\* leaves every session as it was.
C8_JoinStep ==
  (/\ reply'.op = "join"
   /\ reply'.chat_id \in DOMAIN active_sessions
   /\ IsMember(sessions[active_sessions[reply'.chat_id]].members,
               reply'.info[1]))
    => /\ reply'.result = "AlreadyJoined"
       /\ sessions' = sessions

C8_NoDuplicateMembers ==
  /\ [](\A s \in DOMAIN sessions :
          \A i, j \in 1..Len(sessions[s].members) :
            sessions[s].members[i].id = sessions[s].members[j].id => i = j)
  /\ [][C8_JoinStep]_vars

C8_Witness ==
  /\ reply.op = "join"
  /\ reply.result = "AlreadyJoined"
  /\ Len(sessions[active_sessions[reply.chat_id]].members) = 2

\* C9: a step whose handler answered with a rejection (usage, invalid input,
\* conflict, not found, already joined, forbidden) leaves the registry, the
\* sessions, the scheduler tasks and the leaderboard unchanged.
C9_RejectionsMutateNothing ==
  [][reply'.result \in Rejections => UNCHANGED Core]_vars

C9_Witness ==
  /\ reply.op = "end"
  /\ reply.result = "Forbidden"
  /\ reply.info = <<"check failed">>
  /\ reply.chat_id \in DOMAIN active_sessions
  /\ Len(sessions[active_sessions[reply.chat_id]].members) > 0
  /\ tasks[session_tasks[reply.chat_id]].pc = "write"

\* C10: once /end has answered Cancelled for a group, the group stays out of
\* the registry until a /study starts a session, and every /end by an admin
\* in between is answered NotFound and changes nothing.
C10_SecondEndStep ==
  \A c \in Chats :
    (/\ c \notin DOMAIN active_sessions
     /\ reply'.op = "end"
     /\ reply'.chat_id = c
     /\ reply'.result # "Forbidden")
      => /\ reply'.result = "NotFound"
         /\ UNCHANGED Core

C10_OnlyStartRegisters ==
  \A c \in Chats :
    (c \notin DOMAIN active_sessions /\ c \in DOMAIN active_sessions')
      => reply' = Reply("study", c, "Started", << >>)

C10_CancelIdempotent ==
  /\ []((reply.op = "end" /\ reply.result = "Cancelled")
          => reply.chat_id \notin DOMAIN active_sessions)
  /\ [][C10_SecondEndStep /\ C10_OnlyStartRegisters]_vars

C10_Witness ==
  /\ reply.op = "end"
  /\ reply.result = "NotFound"
  /\ Len(tasks) \in DOMAIN cancelLog
  /\ cancelLog[Len(tasks)].phase # "ended"
  /\ tasks[Len(tasks)].chat_id = reply.chat_id

\* the total_minutes a table holds for a key (0: no row)
TotalIn(lb, k) == IF k \in DOMAIN lb THEN lb[k].total_minutes ELSE 0

\* C11: credits to one key never interleave: the row a credit has read is
\* still the row of the table when its write is committed, so every commit
\* raises the total of its key by exactly the minutes of the session, no
\* other step changes a total, and no total ever decreases.
C11_RowCurrent ==
  \A t \in TaskIds :
    tasks[t].pc = "write"
      => tasks[t].row =
           SelectRow(leaderboard, tasks[t].chat_id,
                     sessions[tasks[t].session].members[tasks[t].idx].id)

C11_CreditStep ==
  \A c \in Chats, u \in UserIds :
    LET k == <<c, u>> IN
    /\ TotalIn(leaderboard', k) >= TotalIn(leaderboard, k)
    /\ TotalIn(leaderboard', k) =
         TotalIn(leaderboard, k)
           + (IF credited'.chat_id = c /\ credited'.user_id = u
              THEN credited'.minutes ELSE 0)

C11_NoLostUpdate ==
  /\ []C11_RowCurrent
  /\ [][C11_CreditStep]_vars

\* a second credit to the same key has been committed (the UPDATE branch)
C11_Witness ==
  /\ credited.task = 2
  /\ <<credited.chat_id, credited.user_id>> \in DOMAIN leaderboard
  /\ leaderboard[<<credited.chat_id, credited.user_id>>].total_minutes
       > credited.minutes

\* C12: /leaderboard of a group answers with at most 10 rows, every one a
\* row of that group, in descending order of total_minutes; for a group
\* without rows the answer is the empty list ("No records yet."), not an
\* error.
C12_TopTenOfGroup ==
  reply.op = "leaderboard" =>
    LET rows == reply.info
        own  == {k \in DOMAIN leaderboard : k[1] = reply.chat_id}
    IN /\ reply.result \in {"Board", "NoRecords"}
       /\ Len(rows) <= 10
       /\ \A i \in 1..Len(rows) :
            \E k \in own : rows[i] = <<leaderboard[k].username,
                                       leaderboard[k].total_minutes>>
       /\ \A i, j \in 1..Len(rows) : i < j => rows[i][2] >= rows[j][2]
       /\ own = {} <=> reply.result = "NoRecords"
       /\ reply.result = "NoRecords" => rows = << >>

\* ten rows were answered for a group that has more, two of them tie, and
\* another group has a row with more minutes than any of them
C12_Witness ==
  /\ reply.op = "leaderboard"
  /\ reply.chat_id = 1
  /\ Len(reply.info) = 10
  /\ Cardinality({k \in DOMAIN leaderboard : k[1] = 1}) > 10
  /\ reply.info[1][2] = reply.info[2][2]
  /\ <<2, 99>> \in DOMAIN leaderboard
  /\ leaderboard[<<2, 99>>].total_minutes > reply.info[1][2]

\* the session a scheduler works on: bound at its first step
SessionOf(t) ==
  IF tasks[t].pc = "new" THEN active_sessions[tasks[t].chat_id]
  ELSE tasks[t].session

\* the scheduler is about to run a pass of its loop that observes
\* remaining <= 0 on a session without members
AtEmptyCompletion(t) ==
  /\ Ready(t)
  /\ tasks[t].pc = "new" => tasks[t].chat_id \in DOMAIN active_sessions
  /\ Remaining(sessions[SessionOf(t)], now) <= 0
  /\ Len(sessions[SessionOf(t)].members) = 0

\* C13: when a scheduler observes remaining <= 0 on a session without
\* members, that step sends the completion message with "No one" as its
\* participants and writes nothing to the leaderboard, and from then until
\* the scheduler ends it makes no credit (whoever joins meanwhile).
C13_ObserveStep ==
  \A t \in TaskIds :
    (AtEmptyCompletion(t) /\ tasks'[t].pc \notin {tasks[t].pc, "cancelled"})
      => /\ tasks'[t].pc = "done_send"
         /\ sent'.kind = "finished"
         /\ sent'.task = t
         /\ sent'.participants = <<"No one">>
         /\ credited' = NoCredit
         /\ leaderboard' = leaderboard

C13_AwaitStep ==
  \A t \in TaskIds :
    tasks[t].pc = "done_send"
      => /\ tasks'[t].pc \in {"done_send"} \cup TerminalPcs
         /\ credited'.task # t
         /\ leaderboard' = leaderboard

C13_EmptyCompletion == [][C13_ObserveStep /\ C13_AwaitStep]_vars

\* the second session of a group completed without members while the
\* leaderboard holds the credits of the first
C13_Witness ==
  /\ sent.kind = "finished"
  /\ sent.task = 2
  /\ sent.participants = <<"No one">>
  /\ tasks[2].pc = "done_send"
  /\ leaderboard # << >>

\* C14 (as claimed): what a completion credits and reports is the membership
\* its scheduler found when it observed remaining <= 0: every credit goes to
\* one of the members found then, and the completion message lists exactly
\* those members (somebody who joins later is neither credited nor listed).
C14_SnapshotAtCompletion ==
  \A t \in DOMAIN landed :
    LET found == SubSeq(sessions[tasks[t].session].members, 1,
                        landed[t].members)
    IN /\ credited.task = t => IsMember(found, credited.user_id)
       /\ (sent.task = t /\ sent.kind = "finished")
            => sent.participants = Participants(found)

\* the session is the one registered for some group
Registered(registry, id) == \E c \in DOMAIN registry : registry[c] = id

\* C15 (as claimed): under a fair event loop and a clock that advances, every
\* session that is in the registry is eventually out of it, and a session
\* that has left the registry never comes back (it is removed once).
C15_EventuallyRemoved ==
  /\ \A id \in 1..MaxFairSessions :
       Registered(active_sessions, id) ~> ~Registered(active_sessions, id)
  /\ [][\A id \in TaskIds :
          ~Registered(active_sessions, id) => ~Registered(active_sessions', id)]_vars

\* all that belongs to a group: its registry entries, the session dict
\* registered for it, its schedulers with the sessions they are bound to,
\* and its leaderboard rows
GroupView(c, registry, handles, heap, tks, lb) ==
  [session  |-> IF c \in DOMAIN registry
                THEN <<registry[c], heap[registry[c]]>> ELSE << >>,
   handle   |-> IF c \in DOMAIN handles THEN <<handles[c]>> ELSE << >>,
   tasks    |-> [t \in {x \in 1..Len(tks) : tks[x].chat_id = c} |-> tks[t]],
   bound    |-> [t \in {x \in 1..Len(tks) : /\ tks[x].chat_id = c
                                             /\ tks[x].session \in DOMAIN heap}
                   |-> heap[tks[t].session]],
   rows     |-> [k \in {x \in DOMAIN lb : x[1] = c} |-> lb[k]]]

\* the step is an operation on group c: a handler replying in c, or a
\* scheduler of c being created, running, sending or crediting
ActsOn(c) ==
  \/ reply'.chat_id = c
  \/ sent'.chat_id = c
  \/ credited'.chat_id = c
  \/ \E t \in TaskIds : tasks[t].chat_id = c /\ tasks'[t] # tasks[t]

\* C16: a step that is an operation on one group leaves everything that
\* belongs to any other group as it was: registry entry, session (members,
\* flags), scheduler, and leaderboard rows.
C16_GroupStep ==
  \A g, h \in GroupChats :
    (g # h /\ ActsOn(g))
      => GroupView(h, active_sessions', session_tasks', sessions', tasks',
                   leaderboard')
           = GroupView(h, active_sessions, session_tasks, sessions, tasks,
                       leaderboard)

C16_GroupsIsolated == [][C16_GroupStep]_vars

\* group 1 is credited while group 2, with the same user as a member, is in
\* its own completion and has its row
C16_Witness ==
  /\ credited.chat_id = 1
  /\ 2 \in DOMAIN active_sessions
  /\ IsMember(sessions[active_sessions[2]].members, credited.user_id)
  /\ tasks[session_tasks[2]].pc = "done_send"
  /\ <<2, credited.user_id>> \in DOMAIN leaderboard

\* C17 (as claimed): every session in the registry has minutes > 0 and
\* cycles >= 1; /study never installs a session with zero or negative cycles.
C17_CyclesPositive ==
  \A c \in DOMAIN active_sessions :
    /\ sessions[active_sessions[c]].minutes > 0
    /\ sessions[active_sessions[c]].cycles >= 1

\* C18 (as claimed): between any two steps a group is in active_sessions
\* exactly if it is in session_tasks, and the task registered for it is a
\* scheduler of that group that has not ended and works on (or, not yet
\* started, is about to pick up) the registered session.
C18_RegistryConsistent ==
  /\ DOMAIN active_sessions = DOMAIN session_tasks
  /\ \A c \in DOMAIN session_tasks :
       LET t == session_tasks[c] IN
       /\ tasks[t].chat_id = c
       /\ tasks[t].pc \notin TerminalPcs
       /\ tasks[t].pc # "new" => tasks[t].session = active_sessions[c]

\* C19: a scheduler that has not ended is the one registered for its group,
\* and once it has bound its session that session is the registered one; so
\* the pops at the end of a completion remove the scheduler's own session
\* and handle, never those of a session started later.
C19_OwnEntry ==
  \A t \in TaskIds :
    tasks[t].pc \notin TerminalPcs
      => /\ tasks[t].chat_id \in DOMAIN session_tasks
         /\ session_tasks[tasks[t].chat_id] = t
         /\ tasks[t].chat_id \in DOMAIN active_sessions
         /\ tasks[t].pc # "new"
              => active_sessions[tasks[t].chat_id] = tasks[t].session

C19_CompletionStep ==
  \A t \in TaskIds :
    (tasks[t].pc = "done_send" /\ tasks'[t].pc = "done")
      => /\ active_sessions[tasks[t].chat_id] = tasks[t].session
         /\ session_tasks[tasks[t].chat_id] = t
         /\ active_sessions' = Pop(active_sessions, tasks[t].chat_id)
         /\ session_tasks' = Pop(session_tasks, tasks[t].chat_id)

C19_RemovesOwnSession ==
  /\ []C19_OwnEntry
  /\ [][C19_CompletionStep]_vars

\* the first session was cancelled inside its completion, a second one was
\* started for the group and has completed
C19_Witness ==
  /\ Len(tasks) = 2
  /\ tasks[1].pc = "cancelled"
  /\ 1 \in DOMAIN cancelLog
  /\ cancelLog[1].phase = "completing"
  /\ tasks[2].chat_id = tasks[1].chat_id
  /\ tasks[2].pc = "done"
  /\ tasks[2].chat_id \notin DOMAIN active_sessions

\* C20: the messages of one session come in order: the 5-minute warning is
\* sent only while neither the 1-minute warning nor the completion message
\* has been sent, the 1-minute warning only while the completion message has
\* not been sent, and once the completion message has been sent the
\* scheduler sends nothing more.
C20_InOrder ==
  \A t \in DOMAIN emitted :
    /\ (sent.task = t /\ sent.kind = "warn5")
         => emitted[t].warn1 = 0 /\ emitted[t].finished = 0
    /\ (sent.task = t /\ sent.kind = "warn1") => emitted[t].finished = 0
    /\ emitted[t].finished <= 1

C20_AfterCompletionStep ==
  \A t \in DOMAIN emitted :
    emitted[t].finished = 1
      => /\ sent'.task # t
         /\ t \in DOMAIN emitted' => emitted'[t] = emitted[t]

C20_NotificationsOrdered ==
  /\ []C20_InOrder
  /\ [][C20_AfterCompletionStep]_vars

\* a session has sent both warnings and then its completion message
C20_Witness ==
  \E t \in DOMAIN emitted :
    /\ emitted[t] = [warn1 |-> 1, warn5 |-> 1, finished |-> 1]
    /\ sent.task = t
    /\ sent.kind = "finished"

====
